---- MODULE Spec2Model ----
(***************************************************************************)
(* A model of the recursive-descent JSON parser of src/src/main.rs.        *)
(*                                                                         *)
(* The parser object (current_char, iterator, buffer) is the state; the    *)
(* call stack of the mutually recursive routines is explicit (stack), and  *)
(* every call of Parser::advance is one step of the machine.  A character  *)
(* is a one-character string; text is a sequence of characters.            *)
(***************************************************************************)
EXTENDS Integers, Sequences, FiniteSets, TLC

VARIABLES
    input,          \* the &str handed to Parser::new
    current_char,   \* Parser.current_char : Option<char>
    iterator,       \* Parser.iterator : Chars, the unread remainder of input
    buffer,         \* Parser.buffer : String
    stack,          \* the call stack: one frame per active routine, top last
    ret,            \* the value the routine that returned last handed back
    result,         \* what Parser::parse returned, Pending while it runs
    doc,            \* history: the document input was written from, or NoDoc
    run,            \* history: 1 for the first parser, 2 for the second
    rel,            \* history: how the second input was made from the first
    prevInput,      \* history: the first parser's input
    prevResult,     \* history: the first parser's result
    valueEnd        \* history: where the cursor stood when the top-level
                    \* parse_value returned Ok, 0 before that

vars == <<input, current_char, iterator, buffer, stack, ret, result,
          doc, run, rel, prevInput, prevResult, valueEnd>>

harnessVars == <<doc, run, rel, prevInput, prevResult>>
historyVars == <<harnessVars, valueEnd>>

----------------------------------------------------------------------------
(* Bounds of the model.                                                    *)

\* nodes (values, containers included) of a generated document
MaxNodes == 3
\* length of a generated number token (digits and dots)
MaxNumLen == 4
\* characters after the opening quote of a generated string input
MaxStrLen == 3
\* length of an input drawn freely from RawChars
MaxRawLen == 3
\* length of a first input that gets a second, related, input
MaxVarLen == 9
\* length of an inserted whitespace run
MaxWsRun == 1

----------------------------------------------------------------------------
(* Characters.                                                             *)

None == "None"

Digits == {"0", "1", "2", "3", "4", "5", "6", "7", "8", "9"}

IsAsciiDigit(c) == c \in Digits

\* a variant that knows the space character only
IsWhitespaceSpaceOnly(c) == c = " "

IsWhitespace(c) == c \in {" ", "\t", "\n", "\r"}

DigitVal(c) ==
    CASE c = "0" -> 0 [] c = "1" -> 1 [] c = "2" -> 2 [] c = "3" -> 3
      [] c = "4" -> 4 [] c = "5" -> 5 [] c = "6" -> 6 [] c = "7" -> 7
      [] c = "8" -> 8 [] c = "9" -> 9

DigitChar(n) ==
    CASE n = 0 -> "0" [] n = 1 -> "1" [] n = 2 -> "2" [] n = 3 -> "3"
      [] n = 4 -> "4" [] n = 5 -> "5" [] n = 6 -> "6" [] n = 7 -> "7"
      [] n = 8 -> "8" [] n = 9 -> "9"

Front(s) == SubSeq(s, 1, Len(s) - 1)

Last(s) == s[Len(s)]

StartsWith(s, p) == Len(s) >= Len(p) /\ SubSeq(s, 1, Len(p)) = p

RECURSIVE Pow10(_)
Pow10(n) == IF n = 0 THEN 1 ELSE 10 * Pow10(n - 1)

----------------------------------------------------------------------------
(* The Json enum.  An f64 is held as the exact decimal m / 10^e in lowest   *)
(* form (m a multiple of 10 only when e = 0): two literals denote the same *)
(* f64 exactly when they denote the same decimal, for literals short       *)
(* enough that no two different decimals round to one f64.                 *)

F64(m, e) == [m |-> m, e |-> e]

JsonString(s) == [t |-> "String", s |-> s]
JsonNumber(f) == [t |-> "Number", f |-> f]
JsonInteger(n) == [t |-> "Integer", n |-> n]
JsonArray(a) == [t |-> "Array", a |-> a]
JsonObject(o) == [t |-> "Object", o |-> o]
JsonBoolean(b) == [t |-> "Boolean", b |-> b]
JsonNull == [t |-> "Null"]

\* HashMap::new() and HashMap::insert: the value under an existing key is replaced
EmptyMap == << >>

\* a variant that keeps the value already under the key
MapInsertKeepFirst(map, k, v) ==
    [x \in (DOMAIN map) \cup {k} |-> IF x \in DOMAIN map THEN map[x] ELSE v]

MapInsert(map, k, v) ==
    [x \in (DOMAIN map) \cup {k} |-> IF x = k THEN v ELSE map[x]]

\* anyhow's Result
Pending == [st |-> "Pending"]
Ok(v) == [st |-> "Ok", val |-> v]
Err(e) == [st |-> "Err", err |-> e]
IsOk(r) == r.st = "Ok"
IsErr(r) == r.st = "Err"

----------------------------------------------------------------------------
(* str::parse for usize and f64, on the buffers parse_digits builds: a     *)
(* digit, then digits with at most one '.' among them.                     *)

RECURSIVE DigitsValue(_)
DigitsValue(s) ==
    IF s = << >> THEN 0 ELSE 10 * DigitsValue(Front(s)) + DigitVal(Last(s))

RECURSIVE StripZeros(_)
StripZeros(s) ==
    IF Len(s) > 1 /\ s[1] = "0" THEN StripZeros(Tail(s)) ELSE s

\* usize::MAX = 18446744073709551615 on a 64-bit target, as its digits
UsizeMaxDigits ==
    <<"1", "8", "4", "4", "6", "7", "4", "4", "0", "7", "3", "7", "0", "9",
      "5", "5", "1", "6", "1", "5">>

RECURSIVE DigitsLess(_, _)
\* a < b for two digit strings of the same length
DigitsLess(a, b) ==
    IF a = << >> THEN FALSE
    ELSE IF a[1] # b[1] THEN DigitVal(a[1]) < DigitVal(b[1])
    ELSE DigitsLess(Tail(a), Tail(b))

FitsUsize(s) ==
    LET z == StripZeros(s) IN
        \/ Len(z) < Len(UsizeMaxDigits)
        \/ Len(z) = Len(UsizeMaxDigits) /\ ~DigitsLess(UsizeMaxDigits, z)

ParseUsize(s) ==
    IF FitsUsize(s) THEN Ok(DigitsValue(s))
    ELSE Err(<<"number too large to fit in target type">>)

DotIndex(s) == CHOOSE i \in 1..Len(s) : s[i] = "."

RECURSIVE Lowest(_, _)
Lowest(m, e) ==
    IF e > 0 /\ m % 10 = 0 THEN Lowest(m \div 10, e - 1) ELSE F64(m, e)

ParseF64Value(s) ==
    LET i == DotIndex(s)
        whole == SubSeq(s, 1, i - 1)
        frac == SubSeq(s, i + 1, Len(s))
    IN  Lowest(DigitsValue(whole \o frac), Len(frac))

ParseF64(s) ==
    IF /\ Len(s) > 1
       /\ Cardinality({i \in 1..Len(s) : s[i] = "."}) = 1
       /\ \A i \in 1..Len(s) : s[i] = "." \/ IsAsciiDigit(s[i])
    THEN Ok(ParseF64Value(s))
    ELSE Err(<<"invalid float literal">>)

----------------------------------------------------------------------------
(* The cursor.                                                             *)

\* the number of characters pulled from the iterator so far: the index in
\* input of the character the cursor last read
Pos == Len(input) - Len(iterator)

\* Chars::next on the iterator it: the value returned, and the iterator left
NextChar(it) == IF it = << >> THEN None ELSE Head(it)
NextIter(it) == IF it = << >> THEN << >> ELSE Tail(it)

Top == stack[Len(stack)]
Running(fn, pc) == stack # << >> /\ Top.fn = fn /\ Top.pc = pc

\* the frame on top replaced by f
Goto(f) == [stack EXCEPT ![Len(stack)] = f]
\* the frame on top replaced by f, and the routine g called from it
Call(f, g) == Append(Goto(f), g)

NoRet == [fn |-> "none", start |-> 0, res |-> Pending]

\* self.advance()
advance ==
    /\ current_char' = NextChar(iterator)
    /\ iterator' = NextIter(iterator)

\* the routine on top returns r to its caller
Return(r) ==
    /\ stack' = Front(stack)
    /\ ret' = [fn |-> Top.fn, start |-> Top.start, res |-> r]

\* frames, as each routine is entered; start and head are history: the
\* index the cursor stood on at entry, and when the routine's loop was last
\* entered
eat_whitespace_frame == [fn |-> "eat_whitespace", pc |-> "loop", start |-> Pos]
parse_value_frame ==
    [fn |-> "parse_value", pc |-> "start", start |-> Pos]
parse_array_frame ==
    [fn |-> "parse_array", pc |-> "loop", start |-> Pos, head |-> Pos,
     result |-> << >>]
parse_object_frame ==
    [fn |-> "parse_object", pc |-> "loop", start |-> Pos, head |-> Pos,
     result |-> EmptyMap, key |-> << >>]
parse_string_frame == [fn |-> "parse_string", pc |-> "start", start |-> Pos]
parse_digits_frame ==
    [fn |-> "parse_digits", pc |-> "start", start |-> Pos,
     iter_clone |-> << >>, seen_dot |-> FALSE]
parse_expected_value_frame(expected, json_type) ==
    [fn |-> "parse_expected_value", pc |-> "check", start |-> Pos,
     expected |-> expected, json_type |-> json_type, i |-> 0]
parse_frame ==
    [fn |-> "parse", pc |-> "call_value", start |-> 0, result |-> JsonNull]

\* self.advance(); self.eat_whitespace(); with the caller left at f
advance_and_eat(f) ==
    /\ advance
    /\ stack' = Call(f, eat_whitespace_frame)
    /\ UNCHANGED <<buffer, ret>>

----------------------------------------------------------------------------
(* eat_whitespace: one iteration of the while loop.                        *)

\* a variant whose loop does not advance
eat_whitespace_stuck ==
    /\ Running("eat_whitespace", "loop")
    /\ IF current_char # None /\ IsWhitespace(current_char)
       THEN UNCHANGED <<current_char, iterator, stack, ret>>
       ELSE Return(Ok(<< >>)) /\ UNCHANGED <<current_char, iterator>>
    /\ UNCHANGED <<input, buffer, result>>
    /\ UNCHANGED historyVars

eat_whitespace ==
    /\ Running("eat_whitespace", "loop")
    /\ IF current_char # None /\ IsWhitespace(current_char)
       THEN advance /\ UNCHANGED <<stack, ret>>
       ELSE Return(Ok(<< >>)) /\ UNCHANGED <<current_char, iterator>>
    /\ UNCHANGED <<input, buffer, result>>
    /\ UNCHANGED historyVars

----------------------------------------------------------------------------
(* parse_expected_value                                                    *)

parse_expected_value_check ==
    /\ Running("parse_expected_value", "check")
    /\ IF StartsWith(iterator, Top.expected)
       THEN stack' = Goto([Top EXCEPT !.pc = "loop"]) /\ UNCHANGED ret
       ELSE Return(Err(<<"invalid json value, probably wanted: ",
                         current_char, Top.expected>>))
    /\ UNCHANGED <<input, current_char, iterator, buffer, result>>
    /\ UNCHANGED historyVars

parse_expected_value_loop ==
    /\ Running("parse_expected_value", "loop")
    /\ IF Top.i < Len(Top.expected)
       THEN /\ advance
            /\ stack' = Goto([Top EXCEPT !.i = @ + 1])
            /\ UNCHANGED ret
       ELSE /\ Return(Ok(Top.json_type))
            /\ UNCHANGED <<current_char, iterator>>
    /\ UNCHANGED <<input, buffer, result>>
    /\ UNCHANGED historyVars

----------------------------------------------------------------------------
(* parse_string                                                            *)

\* a variant that does not clear the buffer
parse_string_start_no_clear ==
    /\ Running("parse_string", "start")
    /\ advance
    /\ stack' = Goto([Top EXCEPT !.pc = "loop"])
    /\ UNCHANGED <<input, buffer, ret, result>>
    /\ UNCHANGED historyVars

parse_string_start ==
    /\ Running("parse_string", "start")
    /\ advance
    /\ buffer' = << >>
    /\ stack' = Goto([Top EXCEPT !.pc = "loop"])
    /\ UNCHANGED <<input, ret, result>>
    /\ UNCHANGED historyVars

parse_string_loop ==
    /\ Running("parse_string", "loop")
    /\ IF current_char = None
       THEN /\ Return(Err(<<"Json string never ends!">>))
            /\ UNCHANGED <<current_char, iterator, buffer>>
       ELSE IF current_char = "\""
       THEN /\ Return(Ok(buffer))
            /\ UNCHANGED <<current_char, iterator, buffer>>
       ELSE /\ buffer' = Append(buffer, current_char)
            /\ advance
            /\ UNCHANGED <<stack, ret>>
    /\ UNCHANGED <<input, result>>
    /\ UNCHANGED historyVars

----------------------------------------------------------------------------
(* parse_digits                                                            *)

parse_digits_start ==
    /\ Running("parse_digits", "start")
    /\ buffer' = <<current_char>>
    /\ stack' = Goto([Top EXCEPT !.pc = "loop", !.iter_clone = iterator,
                                 !.seen_dot = FALSE])
    /\ UNCHANGED <<input, current_char, iterator, ret, result>>
    /\ UNCHANGED historyVars

\* a variant that also pulls the character that ends the token
parse_digits_loop_consuming ==
    /\ Running("parse_digits", "loop")
    /\ LET c == NextChar(Top.iter_clone)
           rest == NextIter(Top.iter_clone)
       IN  IF c = None
           THEN /\ stack' = Goto([Top EXCEPT !.pc = "finish"])
                /\ UNCHANGED <<current_char, iterator, buffer>>
           ELSE IF c = "." /\ ~Top.seen_dot
           THEN /\ buffer' = Append(buffer, c)
                /\ advance
                /\ stack' = Goto([Top EXCEPT !.iter_clone = rest,
                                             !.seen_dot = TRUE])
           ELSE IF ~IsAsciiDigit(c)
           THEN /\ stack' = Goto([Top EXCEPT !.pc = "finish",
                                             !.iter_clone = rest])
                /\ advance
                /\ UNCHANGED buffer
           ELSE /\ buffer' = Append(buffer, c)
                /\ advance
                /\ stack' = Goto([Top EXCEPT !.iter_clone = rest])
    /\ UNCHANGED <<input, ret, result>>
    /\ UNCHANGED historyVars

\* one turn of `for c in iter_clone`
parse_digits_loop ==
    /\ Running("parse_digits", "loop")
    /\ LET c == NextChar(Top.iter_clone)
           rest == NextIter(Top.iter_clone)
       IN  IF c = None
           THEN /\ stack' = Goto([Top EXCEPT !.pc = "finish"])
                /\ UNCHANGED <<current_char, iterator, buffer>>
           ELSE IF c = "." /\ ~Top.seen_dot
           THEN /\ buffer' = Append(buffer, c)
                /\ advance
                /\ stack' = Goto([Top EXCEPT !.iter_clone = rest,
                                             !.seen_dot = TRUE])
           ELSE IF ~IsAsciiDigit(c)
           THEN /\ stack' = Goto([Top EXCEPT !.pc = "finish",
                                             !.iter_clone = rest])
                /\ UNCHANGED <<current_char, iterator, buffer>>
           ELSE /\ buffer' = Append(buffer, c)
                /\ advance
                /\ stack' = Goto([Top EXCEPT !.iter_clone = rest])
    /\ UNCHANGED <<input, ret, result>>
    /\ UNCHANGED historyVars

\* what parse_digits returns once the loop is left
parse_digits_result(seen_dot, buf, cur) ==
    IF seen_dot
    THEN IF IsErr(ParseF64(buf)) THEN ParseF64(buf)
         ELSE IF cur # None /\ cur = "."
         THEN Err(<<"invalid json number structure">>)
         ELSE Ok(JsonNumber(ParseF64(buf).val))
    ELSE IF IsErr(ParseUsize(buf)) THEN ParseUsize(buf)
         ELSE Ok(JsonInteger(ParseUsize(buf).val))

parse_digits_finish ==
    /\ Running("parse_digits", "finish")
    /\ Return(parse_digits_result(Top.seen_dot, buffer, current_char))
    /\ UNCHANGED <<input, current_char, iterator, buffer, result>>
    /\ UNCHANGED historyVars

----------------------------------------------------------------------------
(* parse_value                                                             *)

parse_value_start ==
    /\ Running("parse_value", "start")
    /\ advance_and_eat([Top EXCEPT !.pc = "dispatch"])
    /\ UNCHANGED <<input, result>>
    /\ UNCHANGED historyVars

\* the match on current_char; start becomes the index of the character matched
parse_value_dispatch ==
    /\ Running("parse_value", "dispatch")
    /\ LET c == current_char
           here == [Top EXCEPT !.pc = "return", !.start = Pos]
       IN  IF c = "["
           THEN stack' = Call(here, parse_array_frame) /\ UNCHANGED ret
           ELSE IF c = "{"
           THEN stack' = Call(here, parse_object_frame) /\ UNCHANGED ret
           ELSE IF c = "\""
           THEN stack' = Call(here, parse_string_frame) /\ UNCHANGED ret
           ELSE IF c = "n"
           THEN /\ stack' = Call(here, parse_expected_value_frame(
                                     <<"u", "l", "l">>, JsonNull))
                /\ UNCHANGED ret
           ELSE IF c = "f"
           THEN /\ stack' = Call(here, parse_expected_value_frame(
                                     <<"a", "l", "s", "e">>, JsonBoolean(FALSE)))
                /\ UNCHANGED ret
           ELSE IF c = "t"
           THEN /\ stack' = Call(here, parse_expected_value_frame(
                                     <<"r", "u", "e">>, JsonBoolean(TRUE)))
                /\ UNCHANGED ret
           ELSE IF c # None /\ IsAsciiDigit(c)
           THEN stack' = Call(here, parse_digits_frame) /\ UNCHANGED ret
           ELSE IF c # None
           THEN Return(Err(<<"Unexpected: ", c, " in json value">>))
           ELSE Return(Err(<<"Invalid json format.">>))
    /\ UNCHANGED <<input, current_char, iterator, buffer, result>>
    /\ UNCHANGED historyVars

\* the arm that was taken hands its result back through parse_value; the
\* string arm wraps the text in Json::String
parse_value_return ==
    /\ Running("parse_value", "return")
    /\ Return(IF ret.fn = "parse_string" /\ IsOk(ret.res)
              THEN Ok(JsonString(ret.res.val))
              ELSE ret.res)
    /\ UNCHANGED <<input, current_char, iterator, buffer, result>>
    /\ UNCHANGED historyVars

----------------------------------------------------------------------------
(* parse_array                                                             *)

parse_array_loop ==
    /\ Running("parse_array", "loop")
    /\ stack' = Call([Top EXCEPT !.pc = "after_value", !.head = Pos],
                     parse_value_frame)
    /\ UNCHANGED <<input, current_char, iterator, buffer, ret, result>>
    /\ UNCHANGED historyVars

parse_array_after_value ==
    /\ Running("parse_array", "after_value")
    /\ IF IsErr(ret.res)
       THEN Return(ret.res) /\ UNCHANGED <<current_char, iterator, buffer>>
       ELSE advance_and_eat([Top EXCEPT !.pc = "match",
                                        !.result = Append(@, ret.res.val)])
    /\ UNCHANGED <<input, result>>
    /\ UNCHANGED historyVars

parse_array_match ==
    /\ Running("parse_array", "match")
    /\ LET c == current_char IN
           IF c = "]" THEN Return(Ok(JsonArray(Top.result)))
           ELSE IF c = ","
           THEN stack' = Goto([Top EXCEPT !.pc = "loop"]) /\ UNCHANGED ret
           ELSE IF c # None
           THEN Return(Err(<<"Invalid json array structure, got: ", c>>))
           ELSE Return(Err(<<"Invalid json array structure, no closing ]">>))
    /\ UNCHANGED <<input, current_char, iterator, buffer, result>>
    /\ UNCHANGED historyVars

----------------------------------------------------------------------------
(* parse_object                                                            *)

parse_object_loop ==
    /\ Running("parse_object", "loop")
    /\ advance_and_eat([Top EXCEPT !.pc = "match_key", !.head = Pos])
    /\ UNCHANGED <<input, result>>
    /\ UNCHANGED historyVars

parse_object_match_key ==
    /\ Running("parse_object", "match_key")
    /\ LET c == current_char IN
           IF c = "\""
           THEN /\ stack' = Call([Top EXCEPT !.pc = "after_key"],
                                 parse_string_frame)
                /\ UNCHANGED ret
           ELSE IF c # None
           THEN Return(Err(<<"Invalid json object composition, no separator">>))
           ELSE Return(Err(<<"Invalid Json object composition">>))
    /\ UNCHANGED <<input, current_char, iterator, buffer, result>>
    /\ UNCHANGED historyVars

parse_object_after_key ==
    /\ Running("parse_object", "after_key")
    /\ IF IsErr(ret.res)
       THEN Return(ret.res) /\ UNCHANGED <<current_char, iterator, buffer>>
       ELSE advance_and_eat([Top EXCEPT !.pc = "match_colon",
                                        !.key = ret.res.val])
    /\ UNCHANGED <<input, result>>
    /\ UNCHANGED historyVars

parse_object_match_colon ==
    /\ Running("parse_object", "match_colon")
    /\ LET c == current_char IN
           IF c = ":"
           THEN /\ stack' = Call([Top EXCEPT !.pc = "after_value"],
                                 parse_value_frame)
                /\ UNCHANGED ret
           ELSE IF c # None
           THEN Return(Err(<<"Invalid json object composition, no separator">>))
           ELSE Return(Err(<<"Invalid Json object composition">>))
    /\ UNCHANGED <<input, current_char, iterator, buffer, result>>
    /\ UNCHANGED historyVars

parse_object_after_value ==
    /\ Running("parse_object", "after_value")
    /\ IF IsErr(ret.res)
       THEN Return(ret.res) /\ UNCHANGED <<current_char, iterator, buffer>>
       ELSE advance_and_eat(
                [Top EXCEPT !.pc = "match_sep",
                            !.result = MapInsert(@, Top.key, ret.res.val)])
    /\ UNCHANGED <<input, result>>
    /\ UNCHANGED historyVars

\* a variant that takes the end of the input for the closing brace
parse_object_match_sep_lenient ==
    /\ Running("parse_object", "match_sep")
    /\ LET c == current_char IN
           IF c = "}" \/ c = None THEN Return(Ok(JsonObject(Top.result)))
           ELSE IF c = ","
           THEN stack' = Goto([Top EXCEPT !.pc = "loop"]) /\ UNCHANGED ret
           ELSE Return(Err(<<"Invalid Json object composition, got: ", c>>))
    /\ UNCHANGED <<input, current_char, iterator, buffer, result>>
    /\ UNCHANGED historyVars

parse_object_match_sep ==
    /\ Running("parse_object", "match_sep")
    /\ LET c == current_char IN
           IF c = "}" THEN Return(Ok(JsonObject(Top.result)))
           ELSE IF c = ","
           THEN stack' = Goto([Top EXCEPT !.pc = "loop"]) /\ UNCHANGED ret
           ELSE IF c # None
           THEN Return(Err(<<"Invalid Json object composition, got: ", c>>))
           ELSE Return(Err(<<"Invalid Json object composition, no closing }">>))
    /\ UNCHANGED <<input, current_char, iterator, buffer, result>>
    /\ UNCHANGED historyVars

----------------------------------------------------------------------------
(* parse, the entry point                                                  *)

parse_call_value ==
    /\ Running("parse", "call_value")
    /\ stack' = Call([Top EXCEPT !.pc = "after_value"], parse_value_frame)
    /\ UNCHANGED <<input, current_char, iterator, buffer, ret, result>>
    /\ UNCHANGED historyVars

parse_after_value ==
    /\ Running("parse", "after_value")
    /\ IF IsErr(ret.res)
       THEN /\ Return(ret.res)
            /\ result' = ret.res
            /\ UNCHANGED <<current_char, iterator, buffer, valueEnd>>
       ELSE /\ advance_and_eat([Top EXCEPT !.pc = "match",
                                           !.result = ret.res.val])
            /\ valueEnd' = Pos
            /\ UNCHANGED result
    /\ UNCHANGED <<input, harnessVars>>

\* a variant that does not look at what follows the value
parse_match_unchecked ==
    /\ Running("parse", "match")
    /\ Return(Ok(Top.result)) /\ result' = Ok(Top.result)
    /\ UNCHANGED <<input, current_char, iterator, buffer>>
    /\ UNCHANGED historyVars

parse_match ==
    /\ Running("parse", "match")
    /\ LET r == IF current_char # None THEN Err(<<"Invalid json format.">>)
                ELSE Ok(Top.result)
       IN  Return(r) /\ result' = r
    /\ UNCHANGED <<input, current_char, iterator, buffer>>
    /\ UNCHANGED historyVars

----------------------------------------------------------------------------
(* Documents: the syntax trees inputs are written from.  A document is a   *)
(* Json value except that an object is its list of members in source order *)
(* (a key may repeat) and a number is its literal: DocNumber(m, e) is      *)
(* written with e digits after the dot.                                    *)

DocString(s) == [t |-> "String", s |-> s]
DocInteger(n) == [t |-> "Integer", n |-> n]
DocNumber(m, e) == [t |-> "Number", m |-> m, e |-> e]
DocBoolean(b) == [t |-> "Boolean", b |-> b]
DocNull == [t |-> "Null"]
DocArray(a) == [t |-> "Array", a |-> a]
DocObject(ms) == [t |-> "Object", ms |-> ms]
NoDoc == [t |-> "NoDoc"]

Keys == {<<"a">>, <<"b">>}

ScalarDocs ==
    {DocString(<<"a">>), DocInteger(7), DocNumber(15, 1), DocNull,
     DocBoolean(TRUE)}

RECURSIVE DocsOfSize(_), Forests(_)
\* the documents of exactly n nodes
DocsOfSize(n) ==
    IF n = 1 THEN ScalarDocs \cup {DocArray(<< >>), DocObject(<< >>)}
    ELSE {DocArray(f) : f \in Forests(n - 1)}
         \cup UNION {{DocObject([i \in 1..Len(f) |-> [k |-> ks[i], v |-> f[i]]]) :
                        ks \in [1..Len(f) -> Keys]} : f \in Forests(n - 1)}

\* the non-empty sequences of documents of n nodes in all (the empty one for n = 0)
Forests(n) ==
    IF n = 0 THEN {<< >>}
    ELSE UNION {{<<d>> \o f : d \in DocsOfSize(k), f \in Forests(n - k)} :
                  k \in 1..n}

Docs == UNION {DocsOfSize(n) : n \in 1..MaxNodes}

RECURSIVE FormatInt(_)
FormatInt(n) ==
    IF n < 10 THEN <<DigitChar(n)>>
    ELSE Append(FormatInt(n \div 10), DigitChar(n % 10))

RECURSIVE PadZeros(_, _)
PadZeros(s, w) == IF Len(s) >= w THEN s ELSE PadZeros(<<"0">> \o s, w)

RECURSIVE Serialize(_), SerializeItems(_), SerializeMembers(_)
Serialize(d) ==
    CASE d.t = "String" -> <<"\"">> \o d.s \o <<"\"">>
      [] d.t = "Integer" -> FormatInt(d.n)
      [] d.t = "Number" ->
            FormatInt(d.m \div Pow10(d.e)) \o <<".">>
                \o PadZeros(FormatInt(d.m % Pow10(d.e)), d.e)
      [] d.t = "Boolean" ->
            IF d.b THEN <<"t", "r", "u", "e">> ELSE <<"f", "a", "l", "s", "e">>
      [] d.t = "Null" -> <<"n", "u", "l", "l">>
      [] d.t = "Array" -> <<"[">> \o SerializeItems(d.a) \o <<"]">>
      [] d.t = "Object" -> <<"{">> \o SerializeMembers(d.ms) \o <<"}">>

SerializeItems(a) ==
    IF a = << >> THEN << >>
    ELSE IF Len(a) = 1 THEN Serialize(a[1])
    ELSE Serialize(a[1]) \o <<",">> \o SerializeItems(Tail(a))

SerializeMembers(ms) ==
    IF ms = << >> THEN << >>
    ELSE LET one == <<"\"">> \o ms[1].k \o <<"\"", ":">> \o Serialize(ms[1].v)
         IN  IF Len(ms) = 1 THEN one
             ELSE one \o <<",">> \o SerializeMembers(Tail(ms))

----------------------------------------------------------------------------
(* Inputs.                                                                 *)

\* the sequences over S of length lo..hi
SeqsOf(S, lo, hi) == UNION {[1..n -> S] : n \in lo..hi}

NumChars == {"0", "1", "."}
NumTokens == {s \in SeqsOf(NumChars, 1, MaxNumLen) : IsAsciiDigit(s[1])}
NumInputs == NumTokens \cup {<<"[">> \o s \o <<"]">> : s \in NumTokens}

StrChars == {"a", "\\", "\"", " "}
StrInputs == {<<"\"">> \o s : s \in SeqsOf(StrChars, 0, MaxStrLen)}

Words == {<<"n", "u", "l", "l">>, <<"t", "r", "u", "e">>,
          <<"f", "a", "l", "s", "e">>}
WordInputs ==
    UNION {{SubSeq(w, 1, n) \o t : n \in 1..Len(w),
                                   t \in {<< >>, <<"l">>, <<"x">>, <<" ">>}} :
             w \in Words}

RawChars == {"[", "]", "{", "}", "\"", ":", ",", "1"}
RawInputs == SeqsOf(RawChars, 0, MaxRawLen)

OtherInputs == NumInputs \cup StrInputs \cup WordInputs \cup RawInputs

\* Parser::new(input)
new(text) ==
    /\ input = text
    /\ current_char = None
    /\ iterator = text
    /\ buffer = << >>

Init ==
    /\ \/ \E d \in Docs : new(Serialize(d)) /\ doc = d
       \/ \E text \in OtherInputs : new(text) /\ doc = NoDoc
    /\ stack = <<parse_frame>>
    /\ ret = NoRet
    /\ result = Pending
    /\ run = 1
    /\ rel = "none"
    /\ prevInput = << >>
    /\ prevResult = Pending
    /\ valueEnd = 0

----------------------------------------------------------------------------
(* A second parser, on an input made from the first one's.                 *)

\* a line feed, and the runs of up to MaxWsRun characters that start with a
\* space and go on with line feeds and spaces in turn
WsRuns ==
    {<<"\n">>} \cup {[i \in 1..n |-> IF i % 2 = 1 THEN " " ELSE "\n"] :
                        n \in 1..MaxWsRun}

Punctuation == {"[", "]", "{", "}", ",", ":"}

\* p characters of text stand before the cut; the cut is inside a string
\* literal when an odd number of quotes stand before it
InString(text, p) == Cardinality({i \in 1..p : text[i] = "\""}) % 2 = 1

\* the cuts of text where one token ends or the next begins: not inside a
\* string literal, and at an end of the text, or next to a punctuation
\* character, a quote or whitespace
Boundaries(text) ==
    {p \in 0..Len(text) :
        /\ ~InString(text, p)
        /\ \/ p = 0
           \/ p = Len(text)
           \/ text[p] \in Punctuation \cup {"\""} \/ IsWhitespace(text[p])
           \/ text[p + 1] \in Punctuation \cup {"\""} \/ IsWhitespace(text[p + 1])}

InsertAt(text, p, w) == SubSeq(text, 1, p) \o w \o SubSeq(text, p + 1, Len(text))

\* the index of the last character of text that is not whitespace, 0 if none
LastToken(text) ==
    LET S == {i \in 1..Len(text) : ~IsWhitespace(text[i])}
    IN  IF S = {} THEN 0 ELSE CHOOSE i \in S : \A j \in S : j <= i

\* the index of the first character of text that is not whitespace
FirstToken(text) ==
    CHOOSE i \in 1..Len(text) :
        ~IsWhitespace(text[i]) /\ \A j \in 1..(i - 1) : IsWhitespace(text[j])

GarbageChars == {"x", "1", ".", ",", "]", "\""}
Garbage == {<<c>> : c \in GarbageChars} \cup {<<" ", c, " ">> : c \in GarbageChars}

\* g, put right after text, would be read as more of text's last token
Extends(text, g) ==
    /\ text # << >>
    /\ IsAsciiDigit(Last(text)) \/ Last(text) = "."
    /\ IsAsciiDigit(g[1]) \/ g[1] = "."

\* Parser::new(text) for the second parser
new_parser(text, how) ==
    /\ input' = text
    /\ current_char' = None
    /\ iterator' = text
    /\ buffer' = << >>
    /\ stack' = <<parse_frame>>
    /\ ret' = NoRet
    /\ result' = Pending
    /\ run' = 2
    /\ rel' = how
    /\ prevInput' = input
    /\ prevResult' = result
    /\ valueEnd' = 0
    /\ UNCHANGED doc

Finished == result # Pending

\* the input again, with a whitespace run put in at a token boundary
new_whitespace ==
    /\ run = 1 /\ Finished /\ Len(input) <= MaxVarLen
    /\ \E p \in Boundaries(input), w \in WsRuns :
           new_parser(InsertAt(input, p, w), "whitespace")

\* an accepted input whose value is a container or a string, cut before
\* the closing delimiter
new_prefix ==
    /\ run = 1 /\ IsOk(result) /\ Len(input) <= MaxVarLen
    /\ input[FirstToken(input)] \in {"[", "{", "\""}
    /\ \E n \in 0..(LastToken(input) - 1) :
           new_parser(SubSeq(input, 1, n), "prefix")

\* an accepted input with something that is not whitespace put after it
new_trailing ==
    /\ run = 1 /\ IsOk(result) /\ Len(input) <= MaxVarLen
    /\ \E g \in Garbage :
           /\ ~Extends(input, g)
           /\ new_parser(input \o g, "trailing")

\* a step of the parser
Step ==
    \/ eat_whitespace
    \/ parse_expected_value_check
    \/ parse_expected_value_loop
    \/ parse_string_start
    \/ parse_string_loop
    \/ parse_digits_start
    \/ parse_digits_loop
    \/ parse_digits_finish
    \/ parse_value_start
    \/ parse_value_dispatch
    \/ parse_value_return
    \/ parse_array_loop
    \/ parse_array_after_value
    \/ parse_array_match
    \/ parse_object_loop
    \/ parse_object_match_key
    \/ parse_object_after_key
    \/ parse_object_match_colon
    \/ parse_object_after_value
    \/ parse_object_match_sep
    \/ parse_call_value
    \/ parse_after_value
    \/ parse_match

Next ==
    \/ Step
    \/ new_whitespace
    \/ new_prefix
    \/ new_trailing

Spec == Init /\ [][Next]_vars

----------------------------------------------------------------------------
(* What the claims are stated with.                                        *)

\* the routine fn has just handed its result to its caller, which has not
\* moved yet
Returned(fn) ==
    /\ ret.fn = fn
    /\ stack # << >>
    /\ Top.pc \in {"return", "after_key", "after_value"}

DotCount(s) == Cardinality({i \in 1..Len(s) : s[i] = "."})

RECURSIVE PlaceValue(_)
\* the number a digit string denotes, by the place of each digit
PlaceValue(s) ==
    IF s = << >> THEN 0
    ELSE DigitVal(s[1]) * Pow10(Len(s) - 1) + PlaceValue(Tail(s))

\* the f64 f is the numeric reading of the token tok, which has one dot
IsReading(f, tok) ==
    LET fracLen == Len(tok) - DotIndex(tok)
    IN  f.m * Pow10(fracLen) = PlaceValue(SelectSeq(tok, IsAsciiDigit)) * Pow10(f.e)

\* the number token of an input of NumInputs
NumTokenOf(text) ==
    IF text[1] = "[" THEN SubSeq(text, 2, Len(text) - 1) ELSE text

\* the index of the last member of ms with key k
LastWith(ms, k) ==
    CHOOSE i \in 1..Len(ms) :
        ms[i].k = k /\ \A j \in (i + 1)..Len(ms) : ms[j].k # k

RECURSIVE Expected(_)
\* the tree a document denotes
Expected(d) ==
    CASE d.t = "Number" -> JsonNumber(Lowest(d.m, d.e))
      [] d.t = "Array" -> JsonArray([i \in 1..Len(d.a) |-> Expected(d.a[i])])
      [] d.t = "Object" ->
            JsonObject([k \in {d.ms[i].k : i \in 1..Len(d.ms)} |->
                          Expected(d.ms[LastWith(d.ms, k)].v)])
      [] OTHER -> d

----------------------------------------------------------------------------
(* C1: every valid document of the supported grammar, containers without   *)
(* members included, is parsed to Ok of the tree it denotes.               *)
ValidDocumentParses ==
    (run = 1 /\ doc # NoDoc /\ Finished) => result = Ok(Expected(doc))

(* C2: a whitespace run put in at a token boundary of an input, or taken   *)
(* out of one, leaves the result alone: when either of the two inputs is   *)
(* parsed to Ok, the other is parsed to Ok of the same value.              *)
WhitespaceInsignificant ==
    (run = 2 /\ rel = "whitespace" /\ Finished /\ (IsOk(prevResult) \/ IsOk(result)))
        => result = prevResult

WhitespaceWitness ==
    /\ run = 2 /\ rel = "whitespace" /\ Finished
    /\ IsOk(result) /\ result = prevResult
    /\ result.val.t = "Object"
    /\ \E i \in 2..(Len(input) - 1) : input[i] = "\n"

(* C3: parse returns Err when something that is not whitespace follows the *)
(* top-level value, and Ok only when nothing but whitespace follows it.    *)
TrailingContentFails ==
    /\ (run = 2 /\ rel = "trailing" /\ Finished) => IsErr(result)
    /\ (Finished /\ valueEnd > 0) =>
           (IsOk(result) <=>
               \A i \in (valueEnd + 1)..Len(input) : IsWhitespace(input[i]))
    /\ (Finished /\ IsOk(result)) => valueEnd > 0

TrailingWitness ==
    /\ run = 2 /\ rel = "trailing" /\ Finished /\ IsErr(result)
    /\ prevResult.val.t = "Array"
    /\ valueEnd = Len(prevInput)
    /\ Last(input) = " "
    /\ input[Len(input) - 1] = "x"

(* C4: a proper prefix of an accepted input whose value is an object, an   *)
(* array or a string, cut before the closing delimiter, is rejected.       *)
UnterminatedFails ==
    (run = 2 /\ rel = "prefix" /\ Finished) => IsErr(result)

UnterminatedWitness ==
    /\ run = 2 /\ rel = "prefix" /\ Finished /\ IsErr(result)
    /\ prevResult.val.t = "Object"
    /\ Len(input) = Len(prevInput) - 1

(* C5: a token of digits and dots that starts with a digit is parsed to a  *)
(* Number of its numeric reading when it has exactly one dot, and to an    *)
(* Integer of its numeric reading when it has none.                        *)
NumberVariantByDot ==
    (run = 1 /\ input \in NumInputs /\ Returned("parse_digits")) =>
        LET tok == NumTokenOf(input) IN
            /\ DotCount(tok) = 1 =>
                   /\ IsOk(ret.res)
                   /\ ret.res.val.t = "Number"
                   /\ IsReading(ret.res.val.f, tok)
            /\ DotCount(tok) = 0 => ret.res = Ok(JsonInteger(PlaceValue(tok)))

(* C6: the mapping parse_object returns holds each key of the object once, *)
(* under it the value of the last member with that key.                    *)
LastDuplicateKeyWins ==
    (run = 1 /\ doc.t = "Object" /\ Finished /\ IsOk(result)) =>
        /\ result.val.t = "Object"
        /\ DOMAIN result.val.o = {doc.ms[i].k : i \in 1..Len(doc.ms)}
        /\ \A i \in 1..Len(doc.ms) :
               (\A j \in (i + 1)..Len(doc.ms) : doc.ms[j].k # doc.ms[i].k)
                   => result.val.o[doc.ms[i].k] = Expected(doc.ms[i].v)

LastDuplicateKeyWitness ==
    /\ run = 1 /\ doc.t = "Object" /\ Finished /\ IsOk(result)
    /\ Len(doc.ms) = 2
    /\ doc.ms[1].k = doc.ms[2].k
    /\ doc.ms[1].v # doc.ms[2].v

(* C7: a number token with a second dot makes parse_digits fail with       *)
(* "invalid json number structure", wherever the second dot stands, and    *)
(* that is the error parse reports.                                        *)
SecondDotRejected ==
    (run = 1 /\ input \in NumInputs /\ DotCount(NumTokenOf(input)) >= 2) =>
        /\ Returned("parse_digits") =>
               ret.res = Err(<<"invalid json number structure">>)
        /\ Finished => result = Err(<<"invalid json number structure">>)

(* C8: parse_string, entered on an opening quote, returns the characters   *)
(* between that quote and the next one, as they stand, with the cursor on  *)
(* that next quote; it fails with "Json string never ends!" exactly when   *)
(* no quote follows.                                                       *)
StringUpToNextQuote ==
    Returned("parse_string") =>
        LET quotes == {i \in (ret.start + 1)..Len(input) : input[i] = "\""}
            close == CHOOSE i \in quotes : \A j \in quotes : i <= j
        IN  /\ input[ret.start] = "\""
            /\ quotes = {} <=> IsErr(ret.res)
            /\ quotes = {} => ret.res = Err(<<"Json string never ends!">>)
            /\ quotes # {} =>
                   /\ ret.res = Ok(SubSeq(input, ret.start + 1, close - 1))
                   /\ current_char = "\""
                   /\ Pos = close

StringWitness ==
    /\ Returned("parse_string") /\ IsOk(ret.res)
    /\ Len(ret.res.val) = 2
    /\ Last(ret.res.val) = "\\"
    /\ iterator # << >>

(* C9: when parse_value returns Ok the cursor stands on the last character *)
(* of the value, the text from the value's first character to the cursor   *)
(* is the value's text, and the iterator holds what follows the cursor.    *)
CursorOnLastCharacter ==
    (Returned("parse_value") /\ IsOk(ret.res)) =>
        LET v == ret.res.val
            text == SubSeq(input, ret.start, Pos)
        IN  /\ Pos >= 1 /\ ret.start <= Pos
            /\ current_char = input[Pos]
            /\ iterator = SubSeq(input, Pos + 1, Len(input))
            /\ (run = 1 /\ doc # NoDoc /\ Len(stack) = 1) => text = input
            /\ CASE v.t = "String" -> text = <<"\"">> \o v.s \o <<"\"">>
                 [] v.t = "Null" -> text = <<"n", "u", "l", "l">>
                 [] v.t = "Boolean" ->
                        text = IF v.b THEN <<"t", "r", "u", "e">>
                               ELSE <<"f", "a", "l", "s", "e">>
                 [] v.t = "Integer" ->
                        /\ \A i \in 1..Len(text) : IsAsciiDigit(text[i])
                        /\ v.n = PlaceValue(text)
                        /\ iterator # << >> =>
                               ~IsAsciiDigit(iterator[1]) /\ iterator[1] # "."
                 [] v.t = "Number" ->
                        /\ \A i \in 1..Len(text) : IsAsciiDigit(text[i]) \/ text[i] = "."
                        /\ DotCount(text) = 1
                        /\ IsReading(v.f, text)
                        /\ iterator # << >> => ~IsAsciiDigit(iterator[1])
                 [] v.t = "Array" -> text[1] = "[" /\ current_char = "]"
                 [] v.t = "Object" -> text[1] = "{" /\ current_char = "}"

CursorWitness ==
    /\ Returned("parse_value") /\ IsOk(ret.res)
    /\ ret.res.val.t = "Number"
    /\ Len(stack) > 1
    /\ iterator # << >> /\ iterator[1] = ","

----------------------------------------------------------------------------
(* The parser is single-threaded and runs without suspension: a step that  *)
(* can be taken is taken.                                                  *)
FairSpec == Spec /\ WF_vars(Step)

\* an advance has found the input exhausted
Exhausted ==
    /\ current_char = None
    /\ stack # << >>
    /\ ~Running("parse", "call_value")
    /\ ~Running("parse_value", "start")

\* the characters the cursor has not gone past: the current one and the
\* unread ones
Remaining == Len(iterator) + (IF current_char = None THEN 0 ELSE 1)

\* the cursor moves forward, by at most one character a step
CursorForward ==
    /\ input' = input
    /\ Len(iterator') <= Len(iterator)
    /\ Len(iterator') >= Len(iterator) - 1
    /\ Remaining' <= Remaining
    /\ Remaining' >= Remaining - 1

\* a turn of a loop that is followed by another turn has consumed a character
LoopConsumes ==
    (/\ stack # << >> /\ stack' # << >>
     /\ Top.pc = "loop"
     /\ Top.fn \in {"eat_whitespace", "parse_string", "parse_digits",
                    "parse_expected_value"}
     /\ Len(stack') = Len(stack)
     /\ stack'[Len(stack')].pc = "loop")
        => Remaining' = Remaining - 1

\* once the input is exhausted the routine on top returns
ExhaustedReturns == Exhausted => stack' = Front(stack)

\* the loops of parse_array and parse_object: a turn after the first starts
\* further on than the turn before it
ContainerLoopConsumes ==
    /\ Running("parse_array", "loop") =>
           \/ Top.result = << >> /\ Top.head = Top.start
           \/ Pos > Top.head
    /\ Running("parse_object", "loop") =>
           \/ DOMAIN Top.result = {} /\ Top.head = Top.start
           \/ Pos > Top.head

(* C10: parse returns on every input; the cursor never moves back, every   *)
(* turn of a loop consumes a character or leaves the loop, and once the    *)
(* input is exhausted every routine returns.                               *)
ParseTerminates ==
    /\ (~Finished) ~> Finished
    /\ [][run' = run => CursorForward /\ LoopConsumes /\ ExhaustedReturns]_vars
    /\ []ContainerLoopConsumes

ParseTerminatesWitness ==
    /\ Finished /\ IsOk(result)
    /\ result.val.t = "Array"
    /\ Len(result.val.a) = 2
    /\ \E i \in 1..Len(input) : IsWhitespace(input[i])

====
